---- MODULE Spec2Model ----
(***************************************************************************)
(* A model of three pieces of ref-fvm:                                     *)
(*   - ipld/hamt/src/hash_bits.rs : HashBits, the bit extractor of the     *)
(*     HAMT (new, new_at_index, next, next_bits, mkmask);                  *)
(*   - testing/conformance/src/vm.rs : TestLimiter and the statistics it   *)
(*     merges into the shared TestStatsGlobal when it is dropped.          *)
(* Spec        : one extractor, built by either constructor, driven by     *)
(*               arbitrary next(i) calls.                                  *)
(* SpecPass    : one extractor built by new, driven by a pass of next(w)   *)
(*               calls of one fixed width, as the unit tests do.           *)
(* SpecLimiter : limiters of one TestMachine, each owned by a thread.      *)
(***************************************************************************)
EXTENDS Integers, Sequences, FiniteSets, TLC

VARIABLES
    b,                \* HashBits.b : the hashed key, a sequence of bytes
    consumed,         \* HashBits.consumed : u32 bit offset
    pc,               \* "init" (no extractor yet), "ready", "panicked"
    start,            \* ghost: offset the extractor was constructed with
    last,             \* ghost: the last next call [i, before, seen, kind, val, msg]
    max_depth_seen,   \* ghost: some call has returned MaxDepth
    out_bits,         \* ghost: bits returned by the successful calls so far
    width,            \* pass driver: the fixed width (0: arbitrary calls)
    calls_ok,         \* pass driver: successful calls of the pass
    calls_err,        \* pass driver: failed calls of the pass
    local_stats,      \* TestLimiter.local_stats, per limiter
    stats,            \* TestMachine.stats is Some(..) (a TestStatsRef)
    global_ref,       \* TestLimiter.global_stats is Some(..), per limiter
    lpc,              \* per limiter: "none", "live", "exec", "init", "dropped"
    global_stats,     \* the shared TestStatsGlobal [init, exec]
    mutex,            \* holder of the Mutex around global_stats (0: free)
    last_grow,        \* ghost: the last memory_growing call and its result
    forked,           \* pair: the second extractor exists
    consumed2,        \* pair: HashBits.consumed of the second extractor
    pc2,              \* pair: "init", "ready", "panicked" of the second extractor
    last2,            \* pair ghost: the second extractor's last next call
    grow_hist,        \* ghost: the `desired` of limiter 1's memory_growing calls
    vector_circ,      \* MessageVector.preconditions.circ_supply (Option)
    wrapped_circ,     \* what the wrapped kernel would report as circulating supply
    machine,          \* TestMachine: [built, data]
    kernels,          \* the kernels of the call stack, outermost first
    last_op,          \* ghost: the last kernel operation [op, depth, n, charges, ret]
    sys_answer,       \* what the network syscalls answer
    last_sdk          \* ghost: the last sdk::network call [fn, sys, ret]

hbvars == <<b, consumed, pc, start, last, max_depth_seen, out_bits>>
passvars == <<width, calls_ok, calls_err>>
limvars == <<local_stats, stats, global_ref, lpc, global_stats, mutex, last_grow>>
pairvars == <<forked, consumed2, pc2, last2>>
growvars == <<grow_hist>>
kernvars == <<vector_circ, wrapped_circ, machine, kernels, last_op>>
sdkvars == <<sys_answer, last_sdk>>
extvars == <<pairvars, growvars, kernvars, sdkvars>>
vars == <<b, consumed, pc, start, last, max_depth_seen, out_bits,
          width, calls_ok, calls_err,
          local_stats, stats, global_ref, lpc, global_stats, mutex, last_grow,
          forked, consumed2, pc2, last2, grow_hist,
          vector_circ, wrapped_circ, machine, kernels, last_op,
          sys_answer, last_sdk>>

\* ---------------------------------------------------------------- bounds

\* Longest key, in bytes, of the arbitrary-call specification.
MaxLen == 2
\* new_at_index offsets reach this many bits beyond the end of the key.
MaxOver == 9
\* Largest width argument tried (the valid ones are 1..8).
MaxArg == 9
\* Calls a pass makes after its first failure.
MaxExtra == 2
\* Limiters created by the machine.
NumLimiters == 2
\* Largest `desired` passed to memory_growing.
MaxDesired == 2
\* memory_growing calls made on the limiter whose calls are recorded.
MaxCalls == 3
\* Deepest chain of nested sends.
MaxSendDepth == 2
\* Largest circulating supply of a vector, and of the wrapped kernel.
MaxCirc == 2
\* Most seals handed to batch_verify_seals.
MaxSeals == 2
\* Largest of the small 16-bit digits the syscall's halves are built of.
MaxSmall == 1

\* ------------------------------------------------------------- constants

\* HashedKey = [u8; 32]
HashedKeyLen == 32
\* A width that is far outside 1..8.
BigArg == 1000000
\* A u32 offset far beyond any key.
BigOffset == 2000000000
\* u32 values above 2^31 are kept as two 16-bit limbs.
Limb == 2 ^ 16

\* The byte values the keys are built of (the values of the unit tests).
ByteVals == {1, 136, 170, 191}

RECURSIVE SeqsUpTo(_)
SeqsUpTo(n) ==
    IF n = 0 THEN {<<>>}
    ELSE LET S == SeqsUpTo(n - 1)
         IN  S \cup {Append(s, x) : s \in {t \in S : Len(t) = n - 1}, x \in ByteVals}

ShortKeys == {k \in SeqsUpTo(MaxLen) : Len(k) >= 1}

\* test_bitfield's key
BitfieldKey == <<136, 170, 191, 255>> \o [k \in 1..(HashedKeyLen - 4) |-> 0]
\* test_partial_last_bits's key
PartialKey == [k \in 1..HashedKeyLen |-> IF k = HashedKeyLen THEN 1 ELSE 0]

PassKeys == ShortKeys \cup {BitfieldKey, PartialKey}

ArgVals == (0..MaxArg) \cup {BigArg}

\* ------------------------------------------------- u32/u64 bit operations

\* x & y
RECURSIVE BitAnd(_, _)
BitAnd(x, y) ==
    IF x = 0 \/ y = 0 THEN 0
    ELSE (x % 2) * (y % 2) + 2 * BitAnd(x \div 2, y \div 2)

\* (mutant) the complement forgotten: x & y
BitAndNot_NoNot(x, y) == BitAnd(x, y)

\* x & !y on u32 (x is below 2^32, so every bit of x lies inside !y's width)
RECURSIVE BitAndNot(_, _)
BitAndNot(x, y) ==
    IF x = 0 THEN 0
    ELSE (x % 2) * (1 - (y % 2)) + 2 * BitAndNot(x \div 2, y \div 2)

\* (mutant) shifted one place too few
Shr_OneLess(x, k) == x \div (2 ^ (IF k > 0 THEN k - 1 ELSE 0))

\* x >> k
Shr(x, k) == x \div (2 ^ k)

\* (mutant) the shift forgotten
Shl_NoShift(x, k) == x

\* x << k on u64 (x < 2^8 and k <= 8 here, so nothing is shifted out)
Shl(x, k) == x * (2 ^ k)

\* fn mkmask(n: u32) -> u32 { ((1u64 << n) - 1) as u32 }   (n <= 8 here)
mkmask(n) == (2 ^ n) - 1

\* A u32 as <<high 16 bits, low 16 bits>>.
ToU32(x) == <<x \div Limb, x % Limb>>

\* x.wrapping_sub(y) on u32, for x, y below 2^31, as limbs
WrappingSub(x, y) ==
    IF x >= y THEN ToU32(x - y)
    ELSE LET d == y - x
             borrow == IF d % Limb = 0 THEN 0 ELSE 1
         IN  <<Limb - (d \div Limb) - borrow, (Limb - (d % Limb)) % Limb>>

\* (mutant) maxi <= 1 in place of maxi == 0
U32IsZero_OffByOne(p) == p[1] = 0 /\ p[2] <= 1

\* p == 0
U32IsZero(p) == p[1] = 0 /\ p[2] = 0

\* (mutant) the minimum not taken: the width as asked
MinWithU32_NoMin(i, p) == i

\* std::cmp::min(i, p) for a small i and a u32 p in limbs
MinWithU32(i, p) == IF p[1] = 0 /\ p[2] < i THEN p[2] ELSE i

\* ------------------------------------------------------------- HashBits

\* fn next_bits(&mut self, i: u32) -> u32
\* The result: [panic, out, consumed].
RECURSIVE next_bits(_, _, _)
next_bits(key, cons, i) ==
    LET curbi == cons \div 8
        leftb == 8 - (cons % 8)
    IN  IF curbi >= Len(key)
        THEN [panic |-> TRUE, out |-> 0, consumed |-> cons]
        ELSE LET curb == key[curbi + 1]
             IN  IF i = leftb
                 THEN [panic |-> FALSE,
                       out |-> BitAnd(mkmask(i), curb),
                       consumed |-> cons + i]
                 ELSE IF i < leftb
                 THEN LET a  == BitAnd(curb, mkmask(leftb))
                          bb == BitAndNot(a, mkmask(leftb - i))
                          c  == Shr(bb, leftb - i)
                      IN  [panic |-> FALSE, out |-> c, consumed |-> cons + i]
                 ELSE LET out0 == Shl(BitAnd(mkmask(leftb), curb), i - leftb)
                          rec  == next_bits(key, cons + leftb, i - leftb)
                      IN  IF rec.panic
                          THEN [panic |-> TRUE, out |-> 0, consumed |-> rec.consumed]
                          ELSE [panic |-> FALSE,
                                out |-> out0 + rec.out,
                                consumed |-> rec.consumed]

\* (mutant) the test without its i == 0 half
InvalidLen_NoZero(i) == i > 8

\* next's first test: if i > 8 || i == 0
InvalidLen(i) == i > 8 \/ i = 0

\* (mutant) too few bits left is MaxDepth, and the bits left are consumed
HashBitsNext_Strict(key, cons, i, checks) ==
    IF InvalidLen(i)
    THEN [kind |-> "InvalidHashBitLen", val |-> 0, msg |-> "", consumed |-> cons]
    ELSE IF Len(key) * 8 < cons + i
    THEN [kind |-> "MaxDepth", val |-> 0, msg |-> "",
          consumed |-> IF cons < Len(key) * 8 THEN Len(key) * 8 ELSE cons]
    ELSE LET r == next_bits(key, cons, i)
         IN  [kind |-> "Ok", val |-> r.out, msg |-> "", consumed |-> r.consumed]

\* pub fn next(&mut self, i: u32) -> Result<u32, Error>
\* The result: [kind, val, msg, consumed]; kind is "Ok", "InvalidHashBitLen",
\* "MaxDepth" or "Panic". `checks` is the build's overflow-checks setting:
\* with it `len * 8 - consumed` panics when it underflows, without it wraps.
HashBitsNext(key, cons, i, checks) ==
    IF InvalidLen(i)
    THEN [kind |-> "InvalidHashBitLen", val |-> 0, msg |-> "", consumed |-> cons]
    ELSE IF Len(key) * 8 < cons /\ checks
    THEN [kind |-> "Panic", val |-> 0, msg |-> "subtract with overflow",
          consumed |-> cons]
    ELSE LET maxi == WrappingSub(Len(key) * 8, cons)
         IN  IF U32IsZero(maxi)
             THEN [kind |-> "MaxDepth", val |-> 0, msg |-> "", consumed |-> cons]
             ELSE LET r == next_bits(key, cons, MinWithU32(i, maxi))
                  IN  IF r.panic
                      THEN [kind |-> "Panic", val |-> 0,
                            msg |-> "index out of bounds", consumed |-> r.consumed]
                      ELSE [kind |-> "Ok", val |-> r.out, msg |-> "",
                            consumed |-> r.consumed]

\* What next(i) can do: one outcome, or one per build where they differ.
NextOutcomes(key, cons, i) == {HashBitsNext(key, cons, i, checks) : checks \in BOOLEAN}

\* ------------------------------------------------------------ ghost state

NoCall == [i |-> 0, before |-> 0, seen |-> FALSE, kind |-> "None", val |-> 0,
           msg |-> ""]

\* v as w bits, most significant first
ToBits(v, w) == [k \in 1..w |-> (v \div (2 ^ (w - k))) % 2]

\* ---------------------------------------------------- HashBits: actions

HashBitsIdle ==
    /\ consumed = 0
    /\ pc = "init"
    /\ start = 0
    /\ last = NoCall
    /\ max_depth_seen = FALSE
    /\ out_bits = <<>>

PassIdle == width = 0 /\ calls_ok = 0 /\ calls_err = 0

\* (mutant) the offset dropped: the extractor starts at bit 0
new_at_index_Zero(hash_buffer, c) == [b |-> hash_buffer, consumed |-> 0]

\* pub fn new_at_index(hash_buffer, consumed) -> HashBits : the struct built
new_at_index(hash_buffer, c) == [b |-> hash_buffer, consumed |-> c]

\* pub fn new(hash_buffer) -> HashBits { Self::new_at_index(hash_buffer, 0) }
new(hash_buffer) == new_at_index(hash_buffer, 0)

\* HashBits::new(hash_buffer)
New ==
    /\ pc = "init"
    /\ consumed' = new(b).consumed
    /\ start' = 0
    /\ pc' = "ready"
    /\ UNCHANGED <<b, last, max_depth_seen, out_bits>>
    /\ UNCHANGED passvars
    /\ UNCHANGED limvars
    /\ UNCHANGED extvars

\* The offsets new_at_index is given for a key.
Offsets(key) == (0..(8 * Len(key) + MaxOver)) \cup {BigOffset}

\* HashBits::new_at_index(hash_buffer, consumed)
NewAtIndex ==
    /\ pc = "init"
    /\ width = 0
    /\ \E c \in Offsets(b) :
        /\ consumed' = new_at_index(b, c).consumed
        /\ start' = c
    /\ pc' = "ready"
    /\ UNCHANGED <<b, last, max_depth_seen, out_bits>>
    /\ UNCHANGED passvars
    /\ UNCHANGED limvars
    /\ UNCHANGED extvars

\* One call hb.next(i): the extractor and the ghost state after it.
DoNext(i) ==
    \E r \in NextOutcomes(b, consumed, i) :
        /\ consumed' = r.consumed
        /\ pc' = IF r.kind = "Panic" THEN "panicked" ELSE "ready"
        /\ last' = [i |-> i, before |-> consumed, seen |-> max_depth_seen,
                    kind |-> r.kind, val |-> r.val, msg |-> r.msg]
        /\ max_depth_seen' = (max_depth_seen \/ r.kind = "MaxDepth")
        /\ out_bits' = IF r.kind = "Ok"
                       THEN out_bits \o ToBits(r.val, r.consumed - consumed)
                       ELSE out_bits
        /\ UNCHANGED <<b, start>>

\* hb.next(i) with any argument
CallNext ==
    /\ pc = "ready"
    /\ width = 0
    /\ \E i \in ArgVals : DoNext(i)
    /\ UNCHANGED passvars
    /\ UNCHANGED limvars
    /\ UNCHANGED extvars

\* One iteration of a test's loop: hb.next(bit_width)
PassStep ==
    /\ pc = "ready"
    /\ width # 0
    /\ calls_err <= MaxExtra
    /\ DoNext(width)
    /\ calls_ok' = IF last'.kind = "Ok" THEN calls_ok + 1 ELSE calls_ok
    /\ calls_err' = IF last'.kind = "Ok" THEN calls_err ELSE calls_err + 1
    /\ UNCHANGED width
    /\ UNCHANGED limvars
    /\ UNCHANGED extvars

\* ------------------------------------- TestMachine, TestCallManager, TestKernel

\* Option: None, Some(v)
None == <<>>
Some(v) == <<v>>

\* TokenAmount::from_atto(v), as whole FIL and the attoFIL left over
from_atto(v) == [fil |-> 0, atto |-> v]

\* TOTAL_FILECOIN: 2_000_000_000 FIL
TotalFilecoin == [fil |-> 2000000000, atto |-> 0]

NoOp == [op |-> "none", depth |-> 0, n |-> 0, charges |-> <<>>, ret |-> None]

KernelIdle ==
    /\ vector_circ = None
    /\ wrapped_circ = from_atto(0)
    /\ machine = None
    /\ kernels = <<>>
    /\ last_op = NoOp

\* (mutant) the precondition ignored
TestDataOf_NoPrecondition(circ) == [circ_supply |-> TotalFilecoin]

\* new_for_vector: the TestData of the machine,
\* circ_supply: v.preconditions.circ_supply.map(from_atto).unwrap_or_else(TOTAL_FILECOIN)
TestDataOf(circ) ==
    [circ_supply |-> IF circ = None THEN TotalFilecoin ELSE from_atto(circ[1])]

\* TestMachine::new_for_vector
NewForVector ==
    /\ machine = None
    /\ machine' = Some([data |-> TestDataOf(vector_circ)])
    /\ UNCHANGED <<vector_circ, wrapped_circ, kernels, last_op>>
    /\ UNCHANGED hbvars
    /\ UNCHANGED passvars
    /\ UNCHANGED limvars
    /\ UNCHANGED pairvars
    /\ UNCHANGED growvars
    /\ UNCHANGED sdkvars

\* (mutant) the kernel asked for is built as it is, not wrapped
SendKernel_Unwrapped(mach) == [test_kernel |-> FALSE, data |-> mach.data]

\* TestCallManager::send::<K> is self.0.send::<TestKernel<K>>, and the kernel it
\* builds is TestKernel::new: TestKernel(K::new(..), mgr.machine().data.clone())
SendKernel(mach) == [test_kernel |-> TRUE, data |-> mach.data]

\* A send: by the executor when no kernel runs (TestCallManager::send), by the
\* running kernel otherwise (TestKernel::send is self.0.send, which comes
\* back to TestCallManager::send of the call manager the kernel holds).
Send ==
    /\ machine # None
    /\ Len(kernels) < MaxSendDepth
    /\ kernels' = Append(kernels, SendKernel(machine[1]))
    /\ last_op' = [op |-> "send", depth |-> Len(kernels) + 1, n |-> 0,
                   charges |-> <<>>, ret |-> None]
    /\ UNCHANGED <<vector_circ, wrapped_circ, machine>>
    /\ UNCHANGED hbvars
    /\ UNCHANGED passvars
    /\ UNCHANGED limvars
    /\ UNCHANGED pairvars
    /\ UNCHANGED growvars
    /\ UNCHANGED sdkvars

\* The running kernel's invocation ends; its caller runs again.
Return ==
    /\ kernels # <<>>
    /\ kernels' = SubSeq(kernels, 1, Len(kernels) - 1)
    /\ last_op' = [op |-> "return", depth |-> Len(kernels), n |-> 0,
                   charges |-> <<>>, ret |-> None]
    /\ UNCHANGED <<vector_circ, wrapped_circ, machine>>
    /\ UNCHANGED hbvars
    /\ UNCHANGED passvars
    /\ UNCHANGED limvars
    /\ UNCHANGED pairvars
    /\ UNCHANGED growvars
    /\ UNCHANGED sdkvars

\* CircSupplyOps::total_fil_circ_supply of a kernel: Ok(self.1.circ_supply.clone())
\* for a TestKernel, the wrapped kernel's own answer otherwise.
total_fil_circ_supply(k) ==
    [kind |-> "Ok", val |-> IF k.test_kernel THEN k.data.circ_supply ELSE wrapped_circ]

\* The running kernel is asked for the circulating supply.
CircSupply ==
    /\ kernels # <<>>
    /\ last_op' = [op |-> "total_fil_circ_supply", depth |-> Len(kernels), n |-> 0,
                   charges |-> <<>>,
                   ret |-> total_fil_circ_supply(kernels[Len(kernels)])]
    /\ UNCHANGED <<vector_circ, wrapped_circ, machine, kernels>>
    /\ UNCHANGED hbvars
    /\ UNCHANGED passvars
    /\ UNCHANGED limvars
    /\ UNCHANGED pairvars
    /\ UNCHANGED growvars
    /\ UNCHANGED sdkvars

\* The proof checks that charge gas, and the price-list entry each one charges.
ChargingOps == {"verify_seal", "verify_post", "verify_consensus_fault",
                "verify_aggregate_seals", "verify_replica_update"}
PriceOf(op) == "on_" \o op

\* What self.0.charge_gas can answer: Ok(()) or an error.
ChargeAnswers == {[kind |-> "Ok"], [kind |-> "Err", err |-> "OutOfGas"],
                  [kind |-> "Err", err |-> "Fatal"]}

\* (mutant) the charge's failure dropped (no `?`)
VerifyReturn_IgnoreCharge(op, answer) ==
    [kind |-> "Ok", val |-> IF op = "verify_consensus_fault" THEN None ELSE TRUE]

\* self.0.charge_gas(..)?; Ok(true)      (Ok(None) for verify_consensus_fault)
VerifyReturn(op, answer) ==
    IF answer.kind = "Err" THEN answer
    ELSE [kind |-> "Ok", val |-> IF op = "verify_consensus_fault" THEN None ELSE TRUE]

\* verify_seal, verify_post, verify_consensus_fault, verify_aggregate_seals,
\* verify_replica_update on the running kernel
Verify ==
    /\ kernels # <<>>
    /\ \E op \in ChargingOps, answer \in ChargeAnswers :
        last_op' = [op |-> op, depth |-> Len(kernels), n |-> 1,
                    charges |-> <<[on |-> "wrapped", price |-> PriceOf(op),
                                   answer |-> answer]>>,
                    ret |-> VerifyReturn(op, answer)]
    /\ UNCHANGED <<vector_circ, wrapped_circ, machine, kernels>>
    /\ UNCHANGED hbvars
    /\ UNCHANGED passvars
    /\ UNCHANGED limvars
    /\ UNCHANGED pairvars
    /\ UNCHANGED growvars
    /\ UNCHANGED sdkvars

\* batch_verify_seals(vis): Ok(vec![true; vis.len()])
batch_verify_seals(n) == [kind |-> "Ok", val |-> [k \in 1..n |-> TRUE]]

\* batch_verify_seals on the running kernel
BatchVerifySeals ==
    /\ kernels # <<>>
    /\ \E n \in 0..MaxSeals :
        last_op' = [op |-> "batch_verify_seals", depth |-> Len(kernels), n |-> n,
                    charges |-> <<>>, ret |-> batch_verify_seals(n)]
    /\ UNCHANGED <<vector_circ, wrapped_circ, machine, kernels>>
    /\ UNCHANGED hbvars
    /\ UNCHANGED passvars
    /\ UNCHANGED limvars
    /\ UNCHANGED pairvars
    /\ UNCHANGED growvars
    /\ UNCHANGED sdkvars

\* ------------------------------------------------------------- sdk::network

\* A u64 is 4 digits of 16 bits and a u128 is 8, least significant first; a
\* TokenAmount (a big integer) is its digits without high zeros.
LimbVals == (0..MaxSmall) \cup {Limb - 1}
U64Vals == {<<d1, d2, d3, d4>> : d1 \in LimbVals, d2 \in LimbVals,
                                 d3 \in LimbVals, d4 \in LimbVals}
Zero64 == <<0, 0, 0, 0>>

\* x | y on one digit
RECURSIVE BitOr(_, _)
BitOr(x, y) ==
    IF x = 0 THEN y
    ELSE IF y = 0 THEN x
    ELSE (IF x % 2 = 1 \/ y % 2 = 1 THEN 1 ELSE 0) + 2 * BitOr(x \div 2, y \div 2)

\* x as u128, for a u64 x
AsU128(x) == x \o Zero64

\* x << n on u128 (n < 128): the bits shifted past bit 127 are lost
Shl128(x, n) ==
    LET k == n \div 16
        r == n % 16
        At(j) == IF j >= 1 /\ j <= Len(x) THEN x[j] ELSE 0
    IN  [j \in 1..Len(x) |->
            ((At(j - k) * (2 ^ r)) % Limb) + (At(j - k - 1) \div (2 ^ (16 - r)))]

\* x | y on u128
BitOr128(x, y) == [j \in 1..Len(x) |-> BitOr(x[j], y[j])]

\* (mutant) the shift made on the u64, where its amount wraps to 0
Reassemble_ShiftBeforeCast(hi, lo) == BitOr128(AsU128(hi), AsU128(lo))

\* (hi as u128) << 64 | lo as u128
Reassemble(hi, lo) == BitOr128(Shl128(AsU128(hi), 64), AsU128(lo))

RECURSIVE Trim(_)
Trim(x) ==
    IF Len(x) = 0 THEN <<>>
    ELSE IF x[Len(x)] # 0 THEN [j \in 1..Len(x) |-> x[j]]
    ELSE Trim([j \in 1..(Len(x) - 1) |-> x[j]])

\* TokenAmount::from(x) for a u128 x
TokenAmountFrom(x) == Trim(x)

\* What the syscall can answer: Ok((hi, lo)) or an error number.
ErrorNumbers == {"IllegalArgument", "LimitExceeded"}
SysAnswers ==
    {[kind |-> "Ok", val |-> <<hi, lo>>] : hi \in U64Vals, lo \in U64Vals}
        \cup {[kind |-> "Err", err |-> e] : e \in ErrorNumbers}

\* let (hi, lo) = sys::network::base_fee()?; Ok(TokenAmount::from(..))
base_fee(answer) ==
    IF answer.kind = "Err" THEN answer
    ELSE [kind |-> "Ok",
          val |-> TokenAmountFrom(Reassemble(answer.val[1], answer.val[2]))]

\* let (hi, lo) = sys::network::total_fil_circ_supply()?; Ok(TokenAmount::from(..))
sdk_total_fil_circ_supply(answer) ==
    IF answer.kind = "Err" THEN answer
    ELSE [kind |-> "Ok",
          val |-> TokenAmountFrom(Reassemble(answer.val[1], answer.val[2]))]

NoSdkCall == [fn |-> "none", sys |-> [kind |-> "Err", err |-> "none"],
              ret |-> [kind |-> "Err", err |-> "none"]]

SdkIdle == sys_answer = [kind |-> "Err", err |-> "none"] /\ last_sdk = NoSdkCall

\* sdk::network::base_fee()
BaseFee ==
    /\ last_sdk' = [fn |-> "base_fee", sys |-> sys_answer, ret |-> base_fee(sys_answer)]
    /\ UNCHANGED sys_answer
    /\ UNCHANGED hbvars
    /\ UNCHANGED passvars
    /\ UNCHANGED limvars
    /\ UNCHANGED pairvars
    /\ UNCHANGED growvars
    /\ UNCHANGED kernvars

\* sdk::network::total_fil_circ_supply()
TotalFilCircSupply ==
    /\ last_sdk' = [fn |-> "total_fil_circ_supply", sys |-> sys_answer,
                     ret |-> sdk_total_fil_circ_supply(sys_answer)]
    /\ UNCHANGED sys_answer
    /\ UNCHANGED hbvars
    /\ UNCHANGED passvars
    /\ UNCHANGED limvars
    /\ UNCHANGED pairvars
    /\ UNCHANGED growvars
    /\ UNCHANGED kernvars

\* ------------------------------------------- HashBits: two extractors

PairIdle ==
    /\ forked = FALSE
    /\ consumed2 = 0
    /\ pc2 = "init"
    /\ last2 = NoCall

GrowIdle == grow_hist = <<>>

ExtIdle == PairIdle /\ GrowIdle /\ KernelIdle /\ SdkIdle

\* hb.next(i) on the extractor built by new, while it is the only one
PairAdvance ==
    /\ pc = "ready"
    /\ ~forked
    /\ \E i \in ArgVals : DoNext(i)
    /\ UNCHANGED passvars
    /\ UNCHANGED limvars
    /\ UNCHANGED extvars

\* HashBits::new_at_index(key, c), c being what the first extractor consumed
PairFork ==
    /\ pc = "ready"
    /\ ~forked
    /\ forked' = TRUE
    /\ consumed2' = new_at_index(b, consumed).consumed
    /\ pc2' = "ready"
    /\ last2' = NoCall
    /\ UNCHANGED growvars
    /\ UNCHANGED kernvars
    /\ UNCHANGED sdkvars
    /\ UNCHANGED hbvars
    /\ UNCHANGED passvars
    /\ UNCHANGED limvars

\* The same call hb.next(i) made on each of the two extractors
PairNext ==
    /\ forked
    /\ pc = "ready" /\ pc2 = "ready"
    /\ \E i \in ArgVals :
        /\ DoNext(i)
        /\ \E r \in NextOutcomes(b, consumed2, i) :
            /\ consumed2' = r.consumed
            /\ pc2' = IF r.kind = "Panic" THEN "panicked" ELSE "ready"
            /\ last2' = [i |-> i, before |-> consumed2, seen |-> last2.kind = "MaxDepth" \/ last2.seen,
                         kind |-> r.kind, val |-> r.val, msg |-> r.msg]
    /\ UNCHANGED forked
    /\ UNCHANGED growvars
    /\ UNCHANGED kernvars
    /\ UNCHANGED sdkvars
    /\ UNCHANGED passvars
    /\ UNCHANGED limvars

\* ------------------------------------------------------------ TestLimiter

Limiters == 1..NumLimiters

\* TestStats::default()
DefaultStats == [min_desired_memory_bytes |-> 0, max_desired_memory_bytes |-> 0]

\* TestStatsGlobal::default()
DefaultGlobal == [init |-> DefaultStats, exec |-> DefaultStats]

\* maximum: Option<usize> = None
NoMaximum == -1

NoGrow == [op |-> "none", limiter |-> 0, desired |-> 0, args |-> <<0, 0, NoMaximum>>,
           before |-> DefaultStats, inner_calls |-> <<>>,
           inner |-> FALSE, ret |-> FALSE]

LimiterIdle ==
    /\ local_stats = [l \in Limiters |-> DefaultStats]
    /\ global_ref = [l \in Limiters |-> FALSE]
    /\ lpc = [l \in Limiters |-> "none"]
    /\ global_stats = DefaultGlobal
    /\ mutex = 0
    /\ last_grow = NoGrow

\* Machine::new_limiter for TestMachine
NewLimiter(l) ==
    /\ lpc[l] = "none"
    /\ lpc' = [lpc EXCEPT ![l] = "live"]
    /\ global_ref' = [global_ref EXCEPT ![l] = stats]
    /\ local_stats' = [local_stats EXCEPT ![l] = DefaultStats]
    /\ UNCHANGED <<stats, global_stats, mutex, last_grow>>
    /\ UNCHANGED hbvars
    /\ UNCHANGED extvars
    /\ UNCHANGED passvars

\* (mutant) the minimum kept as a true minimum of the values passed
GrowStats_TrueMin(s, desired) ==
    [min_desired_memory_bytes |->
         IF s.min_desired_memory_bytes = 0 \/ desired < s.min_desired_memory_bytes
         THEN desired ELSE s.min_desired_memory_bytes,
     max_desired_memory_bytes |->
         IF s.max_desired_memory_bytes < desired
         THEN desired ELSE s.max_desired_memory_bytes]

\* local_stats after memory_growing(current, desired, maximum)
GrowStats(s, desired) ==
    LET s1 == IF s.max_desired_memory_bytes < desired
              THEN [s EXCEPT !.max_desired_memory_bytes = desired]
              ELSE s
    IN  IF s1.min_desired_memory_bytes = 0
        THEN [s1 EXCEPT !.min_desired_memory_bytes = desired]
        ELSE s1

\* (mutant) current and desired handed to the inner limiter in the wrong order
InnerCallsOfMemoryGrowing_Swapped(current, desired, maximum) ==
    <<[op |-> "memory_growing", args |-> <<desired, current, maximum>>]>>

\* memory_growing: the calls it makes on self.inner
InnerCallsOfMemoryGrowing(current, desired, maximum) ==
    <<[op |-> "memory_growing", args |-> <<current, desired, maximum>>]>>

\* table_growing: the calls it makes on self.inner
InnerCallsOfTableGrowing(current, desired, maximum) ==
    <<[op |-> "table_growing", args |-> <<current, desired, maximum>>]>>

\* What memory_growing and table_growing return: the value of their last
\* expression, the inner limiter's answer.
GrowReturn(inner_answer) == inner_answer

\* The arguments that come with `desired`.
CurrentVals == {0, 1}
MaximumVals == {NoMaximum, MaxDesired}

\* memory_growing(current, desired, maximum) on limiter l; `allow` is the
\* inner limiter's answer.
DoMemoryGrowing(l, current, desired, maximum, allow) ==
    /\ local_stats' = [local_stats EXCEPT ![l] = GrowStats(@, desired)]
    /\ last_grow' = [op |-> "memory", limiter |-> l, desired |-> desired,
                     args |-> <<current, desired, maximum>>,
                     before |-> local_stats[l],
                     inner_calls |-> InnerCallsOfMemoryGrowing(current, desired, maximum),
                     inner |-> allow, ret |-> GrowReturn(allow)]
    /\ UNCHANGED <<stats, global_ref, lpc, global_stats, mutex>>

\* table_growing(current, desired, maximum) on limiter l
DoTableGrowing(l, current, desired, maximum, allow) ==
    /\ last_grow' = [op |-> "table", limiter |-> l, desired |-> desired,
                     args |-> <<current, desired, maximum>>,
                     before |-> local_stats[l],
                     inner_calls |-> InnerCallsOfTableGrowing(current, desired, maximum),
                     inner |-> allow, ret |-> GrowReturn(allow)]
    /\ UNCHANGED <<local_stats, stats, global_ref, lpc, global_stats, mutex>>

\* ResourceLimiter::memory_growing
MemoryGrowing(l) ==
    /\ lpc[l] = "live"
    /\ \E current \in CurrentVals, desired \in 0..MaxDesired,
          maximum \in MaximumVals, allow \in BOOLEAN :
        DoMemoryGrowing(l, current, desired, maximum, allow)
    /\ UNCHANGED hbvars
    /\ UNCHANGED extvars
    /\ UNCHANGED passvars

\* ResourceLimiter::table_growing
TableGrowing(l) ==
    /\ lpc[l] = "live"
    /\ \E current \in CurrentVals, desired \in 0..MaxDesired,
          maximum \in MaximumVals, allow \in BOOLEAN :
        DoTableGrowing(l, current, desired, maximum, allow)
    /\ UNCHANGED hbvars
    /\ UNCHANGED extvars
    /\ UNCHANGED passvars

\* memory_growing on limiter 1, its `desired` recorded
GrowMemory ==
    /\ lpc[1] = "live"
    /\ Len(grow_hist) < MaxCalls
    /\ \E current \in CurrentVals, desired \in 0..MaxDesired,
          maximum \in MaximumVals, allow \in BOOLEAN :
        /\ DoMemoryGrowing(1, current, desired, maximum, allow)
        /\ grow_hist' = Append(grow_hist, desired)
    /\ UNCHANGED pairvars
    /\ UNCHANGED kernvars
    /\ UNCHANGED sdkvars
    /\ UNCHANGED hbvars
    /\ UNCHANGED passvars

\* table_growing on limiter 1
GrowTable ==
    /\ lpc[1] = "live"
    /\ \E current \in CurrentVals, desired \in 0..MaxDesired,
          maximum \in MaximumVals, allow \in BOOLEAN :
        DoTableGrowing(1, current, desired, maximum, allow)
    /\ UNCHANGED extvars
    /\ UNCHANGED hbvars
    /\ UNCHANGED passvars

\* Drop of a limiter whose global_stats is None: nothing is recorded.
DropNoStats(l) ==
    /\ lpc[l] = "live"
    /\ ~global_ref[l]
    /\ lpc' = [lpc EXCEPT ![l] = "dropped"]
    /\ UNCHANGED <<local_stats, stats, global_ref, global_stats, mutex, last_grow>>
    /\ UNCHANGED hbvars
    /\ UNCHANGED extvars
    /\ UNCHANGED passvars

\* Drop: stats.lock() returns the guard once the mutex is free.
DropLock(l) ==
    /\ lpc[l] = "live"
    /\ global_ref[l]
    /\ mutex = 0
    /\ mutex' = l
    /\ lpc' = [lpc EXCEPT ![l] = "exec"]
    /\ UNCHANGED <<local_stats, stats, global_ref, global_stats, last_grow>>
    /\ UNCHANGED hbvars
    /\ UNCHANGED extvars
    /\ UNCHANGED passvars

\* stats.exec after the drop of a limiter with local statistics s
MergeExec(e, s) ==
    LET max_desired == s.max_desired_memory_bytes
        e1 == IF e.max_desired_memory_bytes < max_desired
              THEN [e EXCEPT !.max_desired_memory_bytes = max_desired]
              ELSE e
    IN  IF e1.min_desired_memory_bytes = 0 \/ e1.min_desired_memory_bytes > max_desired
        THEN [e1 EXCEPT !.min_desired_memory_bytes = max_desired]
        ELSE e1

\* stats.init after the drop of a limiter with local statistics s
MergeInit(n, s) ==
    LET min_desired == s.min_desired_memory_bytes
        n1 == IF n.max_desired_memory_bytes < min_desired
              THEN [n EXCEPT !.max_desired_memory_bytes = min_desired]
              ELSE n
    IN  IF n1.min_desired_memory_bytes = 0 \/ n1.min_desired_memory_bytes > min_desired
        THEN [n1 EXCEPT !.min_desired_memory_bytes = min_desired]
        ELSE n1

\* Drop, under the lock: the update of stats.exec
DropExec(l) ==
    /\ lpc[l] = "exec"
    /\ mutex = l
    /\ global_stats' = [global_stats EXCEPT !.exec = MergeExec(@, local_stats[l])]
    /\ lpc' = [lpc EXCEPT ![l] = "init"]
    /\ UNCHANGED <<local_stats, stats, global_ref, mutex, last_grow>>
    /\ UNCHANGED hbvars
    /\ UNCHANGED extvars
    /\ UNCHANGED passvars

\* Drop, under the lock: the update of stats.init, then the guard is released
DropInit(l) ==
    /\ lpc[l] = "init"
    /\ mutex = l
    /\ global_stats' = [global_stats EXCEPT !.init = MergeInit(@, local_stats[l])]
    /\ lpc' = [lpc EXCEPT ![l] = "dropped"]
    /\ mutex' = 0
    /\ UNCHANGED <<local_stats, stats, global_ref, last_grow>>
    /\ UNCHANGED hbvars
    /\ UNCHANGED extvars
    /\ UNCHANGED passvars

\* --------------------------------------------------------- specifications

Init ==
    /\ b \in ShortKeys
    /\ HashBitsIdle
    /\ PassIdle
    /\ stats = FALSE
    /\ LimiterIdle
    /\ ExtIdle

Next == New \/ NewAtIndex \/ CallNext

Spec == Init /\ [][Next]_vars

InitPass ==
    /\ b \in PassKeys
    /\ HashBitsIdle
    /\ width \in 1..8
    /\ calls_ok = 0
    /\ calls_err = 0
    /\ stats = FALSE
    /\ LimiterIdle
    /\ ExtIdle

NextPass == New \/ PassStep

SpecPass == InitPass /\ [][NextPass]_vars

InitLimiter ==
    /\ b = PartialKey
    /\ HashBitsIdle
    /\ PassIdle
    /\ stats \in BOOLEAN
    /\ LimiterIdle
    /\ ExtIdle

NextLimiter ==
    \E l \in Limiters :
        \/ NewLimiter(l)
        \/ MemoryGrowing(l)
        \/ TableGrowing(l)
        \/ DropNoStats(l)
        \/ DropLock(l)
        \/ DropExec(l)
        \/ DropInit(l)

SpecLimiter == InitLimiter /\ [][NextLimiter]_vars

NextGrow == NewLimiter(1) \/ GrowMemory \/ GrowTable

SpecGrow == InitLimiter /\ [][NextGrow]_vars

InitKernel ==
    /\ b = PartialKey
    /\ HashBitsIdle
    /\ PassIdle
    /\ stats = FALSE
    /\ LimiterIdle
    /\ PairIdle
    /\ GrowIdle
    /\ SdkIdle
    /\ vector_circ \in {None} \cup {Some(v) : v \in 0..MaxCirc}
    /\ wrapped_circ \in {from_atto(v) : v \in 0..MaxCirc}
    /\ machine = None
    /\ kernels = <<>>
    /\ last_op = NoOp

NextKernel == NewForVector \/ Send \/ Return \/ CircSupply \/ Verify \/ BatchVerifySeals

SpecKernel == InitKernel /\ [][NextKernel]_vars

NextSdk == BaseFee \/ TotalFilCircSupply

InitSdk ==
    /\ b = PartialKey
    /\ HashBitsIdle
    /\ PassIdle
    /\ stats = FALSE
    /\ LimiterIdle
    /\ PairIdle
    /\ GrowIdle
    /\ KernelIdle
    /\ sys_answer \in SysAnswers
    /\ last_sdk = NoSdkCall

SpecSdk == InitSdk /\ [][NextSdk]_vars

NextPair == New \/ PairAdvance \/ PairFork \/ PairNext

SpecPair == Init /\ [][NextPair]_vars

\* ------------------------------------------------- the key, bit by bit

\* Bit k of the key, bit 0 being the most significant bit of byte 0.
KeyBit(key, k) == (key[(k \div 8) + 1] \div (2 ^ (7 - (k % 8)))) % 2

\* The unsigned integer whose n-bit representation is key bits c .. c+n-1.
RECURSIVE BitsValue(_, _, _)
BitsValue(key, c, n) ==
    IF n = 0 THEN 0 ELSE 2 * BitsValue(key, c, n - 1) + KeyBit(key, c + n - 1)

\* Key bits c .. c+n-1 as a sequence.
KeyBits(key, c, n) == [k \in 1..n |-> KeyBit(key, c + k - 1)]

Called == last.kind # "None"
ValidWidth(i) == i \in 1..8
KeyBitLen == 8 * Len(b)

\* ----------------------------------------------------------------- claims

\* C1: whenever next(n) is called with 1 <= n <= 8 at a cursor c with at least
\* n bits remaining, it returns Ok(v), v being the integer whose n-bit
\* representation is key bits c .. c+n-1 (most significant first), and
\* consumed becomes c + n.
C1_NextReturnsKeyBits ==
    (Called /\ ValidWidth(last.i) /\ last.before + last.i <= KeyBitLen)
        => /\ last.kind = "Ok"
           /\ last.val = BitsValue(b, last.before, last.i)
           /\ consumed = last.before + last.i

\* C1's case: a read that starts inside one byte and ends inside the next.
C1_Witness ==
    /\ Called /\ last.kind = "Ok"
    /\ last.before + last.i <= KeyBitLen
    /\ last.before % 8 # 0
    /\ (last.before % 8) + last.i > 8
    /\ last.val = BitsValue(b, last.before, last.i)
    /\ last.val # 0

\* C2: a width outside 1..8 gives InvalidHashBitLen at every cursor, also
\* when every bit of the key is consumed.
C2_InvalidWidthFails ==
    (Called /\ ~ValidWidth(last.i)) => last.kind = "InvalidHashBitLen"

\* C2's case: an invalid width asked of an exhausted extractor.
C2_Witness ==
    /\ Called /\ last.i = 0
    /\ last.before = KeyBitLen
    /\ last.kind = "InvalidHashBitLen"

Ceil(x, y) == (x + y - 1) \div y

\* C3: when r bits remain with 0 < r < n <= 8, next(n) returns Ok(v), v being
\* the value of exactly the r remaining bits (so v < 2^r), consumed becomes
\* 8*len, and the call that follows, of any valid width, fails with MaxDepth.
C3_ShortReadThenMaxDepth ==
    (Called /\ ValidWidth(last.i) /\ last.before < KeyBitLen
            /\ KeyBitLen - last.before < last.i)
        => /\ last.kind = "Ok"
           /\ last.val = BitsValue(b, last.before, KeyBitLen - last.before)
           /\ last.val < 2 ^ (KeyBitLen - last.before)
           /\ consumed = KeyBitLen
           /\ pc = "ready"
           /\ \A n \in 1..8 : \A o \in NextOutcomes(b, consumed, n) :
                  o.kind = "MaxDepth" /\ o.consumed = consumed

\* C3's case: a short read of several bits that are not all zero.
C3_Witness ==
    /\ Called /\ last.kind = "Ok"
    /\ last.before < KeyBitLen
    /\ KeyBitLen - last.before < last.i
    /\ KeyBitLen - last.before >= 2
    /\ last.val # 0
    /\ consumed = KeyBitLen

\* C4: a pass of next(w) calls with one width w in 1..8 on a fresh extractor:
\* exactly ceil(8*len / w) calls succeed and the calls after them fail with
\* MaxDepth; a call with a valid width returns MaxDepth iff consumed = 8*len.
C4_PassLength ==
    /\ calls_ok <= Ceil(KeyBitLen, width)
    /\ pc # "init" => consumed = (IF calls_ok * width < KeyBitLen
                                  THEN calls_ok * width ELSE KeyBitLen)
    /\ calls_err > 0 => calls_ok = Ceil(KeyBitLen, width)
    /\ Called => /\ last.kind \in {"Ok", "MaxDepth"}
                 /\ last.kind = "MaxDepth" <=> last.before = KeyBitLen
    /\ (pc = "ready" /\ calls_ok < Ceil(KeyBitLen, width))
           => \A o \in NextOutcomes(b, consumed, width) : o.kind = "Ok"

\* C4's case: the 256-bit key read 8 bits at a time; the 33rd call fails.
C4_Witness ==
    /\ Len(b) = HashedKeyLen
    /\ width = 8
    /\ calls_ok = 32
    /\ calls_err = 1
    /\ last.kind = "MaxDepth"

\* C5: on an extractor created by new, under any sequence of next calls,
\* consumed never decreases and never exceeds 8*len, every value returned has
\* as many bits as the call consumed, and the bits returned so far, in call
\* order, are the first `consumed` bits of the key.
C5_ConsumedPrefix ==
    /\ [](start = 0 => /\ consumed <= KeyBitLen
                       /\ out_bits = KeyBits(b, 0, consumed)
                       /\ last.kind = "Ok" =>
                              last.val < 2 ^ (consumed - last.before))
    /\ [][start = 0 /\ start' = 0 => consumed' >= consumed]_vars

\* C5's case: the whole key has been returned by several calls, valid and
\* invalid widths mixed.
C5_Witness ==
    /\ start = 0
    /\ consumed = KeyBitLen
    /\ Len(b) >= 2
    /\ Len(out_bits) = KeyBitLen
    /\ last.kind = "InvalidHashBitLen"
    /\ out_bits = KeyBits(b, 0, KeyBitLen)

\* C6: whenever no key bit lies at or after the cursor (c >= 8*len), also
\* for an extractor built by new_at_index at any offset, next(n) with a valid
\* width returns MaxDepth (it neither underflows nor indexes outside the key).
C6_BeyondKeyIsMaxDepth ==
    (Called /\ ValidWidth(last.i) /\ last.before >= KeyBitLen)
        => last.kind = "MaxDepth"

\* C9: a call that returns InvalidHashBitLen or MaxDepth leaves consumed as it
\* was; and once a call has returned MaxDepth no later call returns Ok and
\* every later call with a valid width returns MaxDepth.
C9_FailureChangesNothing ==
    /\ (Called /\ last.kind \in {"InvalidHashBitLen", "MaxDepth"})
           => consumed = last.before
    /\ (Called /\ last.seen)
           => /\ last.kind # "Ok"
              /\ ValidWidth(last.i) => last.kind = "MaxDepth"

\* C9's case: a second MaxDepth, after the first one.
C9_Witness ==
    /\ Called /\ last.seen
    /\ ValidWidth(last.i)
    /\ last.kind = "MaxDepth"
    /\ consumed = last.before

\* C10: one read of a + b bits (a, b >= 1, a + b <= 8, all of them in the key)
\* returns x * 2^b + y and leaves the same consumed as the read of a bits
\* returning x followed by the read of b bits returning y.
C10_SplitRead ==
    (Called /\ ValidWidth(last.i) /\ last.before + last.i <= KeyBitLen)
        => \A a \in 1..(last.i - 1) :
               LET x == HashBitsNext(b, last.before, a, TRUE)
                   y == HashBitsNext(b, x.consumed, last.i - a, TRUE)
               IN  /\ x.kind = "Ok" /\ y.kind = "Ok"
                   /\ last.kind = "Ok"
                   /\ last.val = x.val * (2 ^ (last.i - a)) + y.val
                   /\ consumed = y.consumed

\* C10's case: a read across a byte boundary whose two parts are not zero.
C10_Witness ==
    /\ Called /\ last.kind = "Ok"
    /\ last.before + last.i <= KeyBitLen
    /\ last.before % 8 = 5
    /\ last.i = 7
    /\ HashBitsNext(b, last.before, 3, TRUE).val # 0
    /\ HashBitsNext(b, last.before + 3, 4, TRUE).val # 0

SetMin(S) == CHOOSE x \in S : \A y \in S : x <= y
SetMax(S) == CHOOSE x \in S : \A y \in S : x >= y

\* The limiters that have been dropped and share the TestStatsGlobal.
Dropped == {l \in Limiters : lpc[l] = "dropped" /\ global_ref[l]}
DroppedMaxima == {local_stats[l].max_desired_memory_bytes : l \in Dropped}

\* C8: once limiters sharing one TestStatsGlobal have been dropped (no drop
\* being under way), stats.exec.min_desired_memory_bytes is the minimum and
\* stats.exec.max_desired_memory_bytes the maximum of the dropped limiters'
\* local max_desired_memory_bytes, a limiter that never grew counting as 0.
C8_ExecIsMinMaxOfDropped ==
    (Dropped # {} /\ mutex = 0)
        => /\ global_stats.exec.min_desired_memory_bytes = SetMin(DroppedMaxima)
           /\ global_stats.exec.max_desired_memory_bytes = SetMax(DroppedMaxima)

\* C11: an extractor built by new_at_index(key, c), 0 <= c <= 8*len, and an
\* extractor built by new(key) whose calls have consumed exactly c bits give
\* the same result and reach the same consumed under every further sequence
\* of next calls.
C11_AtIndexIsNewAdvanced ==
    forked
        => /\ consumed2 = consumed
           /\ consumed2 <= KeyBitLen
           /\ pc2 = pc
           /\ last2.kind # "None"
                  => /\ last2.i = last.i
                     /\ last2.before = last.before
                     /\ last2.kind = last.kind
                     /\ last2.val = last.val

\* C11's case: forked in the middle of a byte, the two extractors have each
\* returned the same non-zero bits of a read across a byte boundary.
C11_Witness ==
    /\ forked
    /\ last2.kind = "Ok" /\ last.kind = "Ok"
    /\ last2.before % 8 # 0
    /\ (last2.before % 8) + last2.i > 8
    /\ last2.val # 0
    /\ last2.val = last.val
    /\ consumed2 = consumed

\* C12: every memory_growing and table_growing call on a TestLimiter calls
\* the inner limiter exactly once, the same operation with the same (current,
\* desired, maximum), and returns the inner limiter's answer, whatever the
\* statistics are; table_growing changes no statistics.
C12_TransparentWrapper ==
    last_grow.op # "none"
        => /\ Len(last_grow.inner_calls) = 1
           /\ last_grow.inner_calls[1].args = last_grow.args
           /\ last_grow.inner_calls[1].op =
                  (IF last_grow.op = "memory" THEN "memory_growing"
                                              ELSE "table_growing")
           /\ last_grow.ret = last_grow.inner
           /\ last_grow.op = "table"
                  => local_stats[last_grow.limiter] = last_grow.before

\* C12's case: a growth the inner limiter refuses, after statistics were
\* recorded, with current, desired and maximum all different.
C12_Witness ==
    /\ last_grow.op = "memory"
    /\ last_grow.before.max_desired_memory_bytes > 0
    /\ last_grow.args = <<1, 0, MaxDesired>>
    /\ ~last_grow.inner
    /\ ~last_grow.ret

RECURSIVE FirstNonZero(_)
FirstNonZero(h) ==
    IF h = <<>> THEN 0 ELSE IF Head(h) # 0 THEN Head(h) ELSE FirstNonZero(Tail(h))

SeqMax(h) == IF h = <<>> THEN 0 ELSE SetMax({h[k] : k \in 1..Len(h)})

\* C13: after any memory_growing calls on one TestLimiter its
\* max_desired_memory_bytes is the largest `desired` passed (0 if none) and
\* its min_desired_memory_bytes is the first non-zero `desired` passed (0 if
\* none), whether the inner limiter allowed the growths or not.
C13_LocalStats ==
    lpc[1] = "live"
        => /\ local_stats[1].max_desired_memory_bytes = SeqMax(grow_hist)
           /\ local_stats[1].min_desired_memory_bytes = FirstNonZero(grow_hist)

\* C13's case: a refused growth to less than the first request; the recorded
\* minimum stays the first request.
C13_Witness ==
    /\ Len(grow_hist) >= 2
    /\ last_grow.op = "memory" /\ ~last_grow.inner
    /\ last_grow.desired # 0
    /\ last_grow.desired < local_stats[1].min_desired_memory_bytes
    /\ local_stats[1].min_desired_memory_bytes = grow_hist[1]

\* C14: on a TestKernel, verify_seal, verify_post, verify_aggregate_seals and
\* verify_replica_update charge the call's price-list gas once on the wrapped
\* kernel and return Ok(true) iff the charge succeeds, the charge's error
\* otherwise; verify_consensus_fault does the same with Ok(None);
\* batch_verify_seals charges nothing and returns one `true` per input.
C14_ProofChecksNeverFail ==
    /\ last_op.op \in ChargingOps
           => /\ Len(last_op.charges) = 1
              /\ last_op.charges[1].on = "wrapped"
              /\ last_op.charges[1].price = PriceOf(last_op.op)
              /\ last_op.charges[1].answer.kind = "Ok"
                     => last_op.ret =
                            [kind |-> "Ok",
                             val |-> IF last_op.op = "verify_consensus_fault"
                                     THEN None ELSE TRUE]
              /\ last_op.charges[1].answer.kind = "Err"
                     => last_op.ret = last_op.charges[1].answer
    /\ last_op.op = "batch_verify_seals"
           => /\ last_op.charges = <<>>
              /\ last_op.ret.kind = "Ok"
              /\ Len(last_op.ret.val) = last_op.n
              /\ \A k \in 1..last_op.n : last_op.ret.val[k] = TRUE

\* C14's case: a proof check in a nested kernel whose gas charge fails.
C14_Witness ==
    /\ last_op.op = "verify_seal"
    /\ last_op.depth = 2
    /\ last_op.charges[1].answer.kind = "Err"
    /\ last_op.ret.kind = "Err"

\* The circ_supply fixed when the machine was built.
FixedCirc == IF vector_circ = None THEN TotalFilecoin ELSE from_atto(vector_circ[1])

\* C15: every kernel of the call stack, at every depth, is a TestKernel that
\* carries the machine's TestData, and the circulating supply it reports is
\* the one fixed when the machine was built (the vector's, or TOTAL_FILECOIN
\* when the vector has none), never the wrapped kernel's.
C15_InterceptionAtEveryDepth ==
    /\ \A d \in 1..Len(kernels) :
           /\ kernels[d].test_kernel
           /\ machine # None
           /\ kernels[d].data = machine[1].data
           /\ total_fil_circ_supply(kernels[d]).val = FixedCirc
    /\ machine # None => machine[1].data.circ_supply = FixedCirc
    /\ last_op.op = "total_fil_circ_supply"
           => last_op.ret = [kind |-> "Ok", val |-> FixedCirc]

\* C15's case: the supply asked of a nested kernel, the vector's supply and
\* the wrapped kernel's being different.
C15_Witness ==
    /\ last_op.op = "total_fil_circ_supply"
    /\ last_op.depth = 2
    /\ vector_circ # None
    /\ from_atto(vector_circ[1]) # wrapped_circ
    /\ last_op.ret.val = from_atto(vector_circ[1])

\* x + y + carry on natural numbers written as 16-bit digits
RECURSIVE AddNat(_, _, _)
AddNat(x, y, carry) ==
    IF Len(x) = 0 /\ Len(y) = 0
    THEN IF carry = 0 THEN <<>> ELSE <<carry>>
    ELSE LET a == IF Len(x) = 0 THEN 0 ELSE Head(x)
             c == IF Len(y) = 0 THEN 0 ELSE Head(y)
             sum == a + c + carry
         IN  <<sum % Limb>>
                 \o AddNat(IF Len(x) = 0 THEN <<>> ELSE Tail(x),
                           IF Len(y) = 0 THEN <<>> ELSE Tail(y), sum \div Limb)

\* x * 2^16, and x * 2^64
TimesLimb(x) == <<0>> \o x
Times2To64(x) == TimesLimb(TimesLimb(TimesLimb(TimesLimb(x))))

\* hi * 2^64 + lo
AmountOf(hi, lo) == AddNat(Times2To64(hi), lo, 0)

\* The digits j..k of an amount, the missing high ones being zero.
Digits(x, j, k) == [n \in 1..(k - j + 1) |-> IF n + j - 1 <= Len(x) THEN x[n + j - 1] ELSE 0]

\* C16: base_fee and total_fil_circ_supply return, for the halves (hi, lo) of
\* the syscall, the amount hi * 2^64 + lo, which fits 128 bits and from which
\* both halves can be read back (distinct pairs give distinct amounts); an
\* error of the syscall is returned unchanged.
C16_LosslessReassembly ==
    last_sdk.fn \in {"base_fee", "total_fil_circ_supply"}
        => /\ last_sdk.sys.kind = "Ok"
                  => LET hi == last_sdk.sys.val[1]
                         lo == last_sdk.sys.val[2]
                     IN  /\ last_sdk.ret.kind = "Ok"
                         /\ Len(AmountOf(hi, lo)) <= 8
                         /\ last_sdk.ret.val = Trim(AmountOf(hi, lo))
                         /\ Digits(last_sdk.ret.val, 5, 8) = hi
                         /\ Digits(last_sdk.ret.val, 1, 4) = lo
           /\ last_sdk.sys.kind = "Err" => last_sdk.ret = last_sdk.sys

\* C16's case: both halves with their highest bit set, and different.
C16_Witness ==
    /\ last_sdk.fn = "base_fee"
    /\ last_sdk.sys.kind = "Ok"
    /\ last_sdk.sys.val[1][4] = Limb - 1
    /\ last_sdk.sys.val[2][4] = Limb - 1
    /\ last_sdk.sys.val[1] # last_sdk.sys.val[2]
    /\ Len(last_sdk.ret.val) = 8

====
